---------------------------- MODULE Spec2Model ----------------------------
(***************************************************************************)
(* Galois/Counter Mode (GCM) of src/crypto/gcm.c as a state machine.       *)
(*                                                                         *)
(* Memory is modelled byte for byte: a union gcm_block is a sequence of 16 *)
(* bytes (byte[i] of the C code is element i + 1), a uint16_t in memory is *)
(* a sequence of 2 bytes.  CPU-side integers wider than 16 bits are kept   *)
(* as sequences of 16-bit limbs, most significant first, so that the       *)
(* arithmetic modulo 2^32 and modulo 2^64 of the C code is kept exactly:   *)
(* a uint32_t is <<hi, lo>>, a uint64_t is <<l3, l2, l1, l0>>.             *)
(***************************************************************************)
EXTENDS Integers, Sequences, FiniteSets, TLC

-----------------------------------------------------------------------------
(* Sizes and constants of the program *)

\* GCM_POLY, the field polynomial 1 + x + x^2 + x^7 as a single byte
GCM_POLY == 225

\* sizeof ( union gcm_block )
BlockSize == 16

\* sizeof ( context->ctr.ctr.iv )
IvSize == 12

\* number of entries of gcm_cached_mult[] and gcm_cached_reduce[]
TableSize == 256

Byte == 0..255

\* a sequence of bytes given by a function on 1..n, as a tuple of values
Stored(f) == f \o <<>>

\* the element of a one-element set.  Only({f(v) : v \in {e}}) is f(e) with
\* e evaluated first, as the statement before a C statement is
Only(S) == CHOOSE r \in S : TRUE

ZeroBlock == Stored([i \in 1..BlockSize |-> 0])

-----------------------------------------------------------------------------
(* Bitwise operations on bytes *)

RECURSIVE XorBits(_, _, _)
XorBits(a, b, n) ==
    IF n = 0 THEN 0
    ELSE ((a + b) % 2) + 2 * XorBits(a \div 2, b \div 2, n - 1)

\* the C operator ^ on uint8_t, tabulated once
XorTable ==
    Stored([a \in 1..256 |->
              Stored([b \in 1..256 |-> XorBits(a - 1, b - 1, 8)])])

Xor8(a, b) == XorTable[a + 1][b + 1]

-----------------------------------------------------------------------------
(* Byte order conversions and fixed-width arithmetic *)

\* be16_to_cpu: the value of 2 bytes of memory read as big-endian
be16_to_cpu(mem) == mem[1] * 256 + mem[2]

\* cpu_to_be16: the 2 bytes of memory holding a value as big-endian
cpu_to_be16(v) == <<v \div 256, v % 256>>

\* be32_to_cpu: 4 bytes of memory read as a big-endian uint32_t (2 limbs)
be32_to_cpu(mem) == <<mem[1] * 256 + mem[2], mem[3] * 256 + mem[4]>>

\* cpu_to_be32: the 4 bytes of memory holding a uint32_t as big-endian
cpu_to_be32(v) == <<v[1] \div 256, v[1] % 256, v[2] \div 256, v[2] % 256>>

\* cpu_to_be64: the 8 bytes of memory holding a uint64_t as big-endian
cpu_to_be64(v) ==
    <<v[1] \div 256, v[1] % 256, v[2] \div 256, v[2] % 256,
      v[3] \div 256, v[3] % 256, v[4] \div 256, v[4] % 256>>

\* a small natural number as a uint32_t
U32(n) == <<n \div 65536, n % 65536>>

Zero64 == <<0, 0, 0, 0>>

\* uint32_t addition, modulo 2^32
Add32(a, b) ==
    LET lo == a[2] + b[2]
        hi == a[1] + b[1] + (lo \div 65536)
    IN  <<hi % 65536, lo % 65536>>

\* uint64_t += n for a natural number n < 2^31, modulo 2^64
Add64(a, n) ==
    LET s0 == a[4] + (n % 65536)
        s1 == a[3] + (n \div 65536) + (s0 \div 65536)
        s2 == a[2] + (s1 \div 65536)
        s3 == a[1] + (s2 \div 65536)
    IN  <<s3 % 65536, s2 % 65536, s1 % 65536, s0 % 65536>>

\* unary minus on a uint64_t: two's complement, modulo 2^64
Neg64(a) ==
    LET n0 == (65535 - a[4]) + 1
        n1 == (65535 - a[3]) + (n0 \div 65536)
        n2 == (65535 - a[2]) + (n1 \div 65536)
        n3 == (65535 - a[1]) + (n2 \div 65536)
    IN  <<n3 % 65536, n2 % 65536, n1 % 65536, n0 % 65536>>

\* uint64_t / ( 8 * sizeof ( tmp ) ), i.e. a right shift by 7 bits
Div128(a) ==
    <<a[1] \div 128,
      (a[1] % 128) * 512 + (a[2] \div 128),
      (a[2] % 128) * 512 + (a[3] \div 128),
      (a[3] % 128) * 512 + (a[4] \div 128)>>

\* conversion of a uint64_t to uint32_t: the low 32 bits
Trunc32(a) == <<a[3], a[4]>>

-----------------------------------------------------------------------------
(* Field arithmetic *)

RECURSIVE gcm_reverse_loop(_, _, _)
gcm_reverse_loop(byte, mask, etyb) ==
    IF mask = 0 THEN etyb
    ELSE LET shifted == (etyb * 2) % 256
         IN  gcm_reverse_loop(byte, (mask * 2) % 256,
                              IF (byte \div mask) % 2 = 1
                              THEN shifted + 1 ELSE shifted)

\* the result of the loop of gcm_reverse for every byte and every value
\* etyb may start from, tabulated once
ReverseTable ==
    Stored([u \in 1..256 |->
              Stored([b \in 1..256 |-> gcm_reverse_loop(b - 1, 1, u - 1)])])

\* gcm_reverse returning the byte as it is
gcm_reverse_Identity(byte, uninit) == byte

\* gcm_reverse: etyb starts from the uninitialised value uninit
gcm_reverse(byte, uninit) == ReverseTable[uninit + 1][byte + 1]

\* gcm_count: add delta to the big-endian counter in the last 4 bytes
\* gcm_count carrying out of the counter field into the last byte of the
\* nonce field
gcm_count_Carry(ctr, delta) ==
    LET value == be32_to_cpu(SubSeq(ctr, IvSize + 1, BlockSize))
        sum == Add32(value, delta)
        carry == IF sum[1] < value[1]
                    \/ (sum[1] = value[1] /\ sum[2] < value[2])
                 THEN 1 ELSE 0
    IN  SubSeq(ctr, 1, IvSize - 1)
        \o <<(ctr[IvSize] + carry) % 256>>
        \o cpu_to_be32(sum)

gcm_count(ctr, delta) ==
    LET value == be32_to_cpu(SubSeq(ctr, IvSize + 1, BlockSize))
    IN  SubSeq(ctr, 1, IvSize) \o cpu_to_be32(Add32(value, delta))

\* gcm_xor: XOR the first len bytes of src1 and src2
gcm_xor(src1, src2, len) ==
    Stored([i \in 1..len |-> Xor8(src1[i], src2[i])])

\* gcm_xor_block: dst ^= src over the whole block
gcm_xor_block(src, dst) ==
    Stored([i \in 1..BlockSize |-> Xor8(dst[i], src[i])])

\* gcm_multiply_x: shift all bits rightward, reduce on carry out
gcm_multiply_x(mult) ==
    LET shifted == Stored([i \in 1..BlockSize |->
                      ((IF i = 1 THEN 0 ELSE mult[i - 1] % 2) * 128)
                      + (mult[i] \div 2)])
        carry == mult[BlockSize] % 2
    IN  IF carry = 1
        THEN [shifted EXCEPT ![1] = Xor8(shifted[1], GCM_POLY)]
        ELSE shifted

\* entry i of a table of TableSize entries (the tables are kept as
\* sequences: entry i of the C array is element i + 1)
Entry(table, i) == table[i + 1]

\* one pass of the loop body of gcm_cache for index i, on the tables as they
\* stand
gcm_cache_step(key, cache, i, uninit) ==
    LET this == gcm_reverse(i, uninit)
        mult == cache.mult
        reduce == cache.reduce
    IN  IF this >= 128
        THEN LET other == this % 128
             IN  [cache EXCEPT
                    !.mult[this + 1] =
                        gcm_xor(key, Entry(mult, other), BlockSize),
                    !.reduce[this + 1] =
                        <<Xor8(Entry(reduce, other)[1], GCM_POLY),
                          Entry(reduce, other)[2]>>]
        ELSE LET other == this * 2
             IN  [cache EXCEPT
                    !.mult[this + 1] = gcm_multiply_x(Entry(mult, other)),
                    !.reduce[this + 1] =
                        cpu_to_be16(be16_to_cpu(Entry(reduce, other))
                                    \div 2)]

\* the passes of the loop of gcm_cache for i = lo, lo + 1, ..., hi in this
\* order (the range is halved to keep the evaluation shallow)
RECURSIVE gcm_cache_loop(_, _, _, _, _)
gcm_cache_loop(key, cache, lo, hi, uninit) ==
    IF lo = hi THEN gcm_cache_step(key, cache, lo, uninit)
    ELSE LET mid == (lo + hi) \div 2
         IN  Only({gcm_cache_loop(key, half, mid + 1, hi, uninit) :
                      half \in {gcm_cache_loop(key, cache, lo, mid, uninit)}})

\* gcm_cache: fill both tables for the hash key stored at address keyptr
\* (contents key), then record the cached key
gcm_cache(keyptr, key, cache, uninit) ==
    [gcm_cache_loop(key, cache, 1, TableSize - 1, uninit)
        EXCEPT !.key = keyptr]

\* gcm_multiply_x_8 dropping the byte shifted out
gcm_multiply_x_8_NoReduce(poly, reduce) ==
    Stored([i \in 1..BlockSize |-> IF i = 1 THEN 0 ELSE poly[i - 1]])

\* gcm_multiply_x_8: shift by one byte, fold the byte shifted out back in
\* through the reduction table
gcm_multiply_x_8(poly, reduce) ==
    LET msb == poly[BlockSize]
        shifted == Stored([i \in 1..BlockSize |->
                      IF i = 1 THEN 0 ELSE poly[i - 1]])
    IN  [shifted EXCEPT ![1] = Xor8(shifted[1], Entry(reduce, msb)[1]),
                        ![2] = Xor8(shifted[2], Entry(reduce, msb)[2])]

RECURSIVE gcm_multiply_loop(_, _, _, _)
gcm_multiply_loop(poly, res, i, cache) ==
    IF i < 1 THEN res
    ELSE Only({gcm_multiply_loop(poly, next, i - 1, cache) :
                   next \in {gcm_xor_block(Entry(cache.mult, poly[i]),
                                           gcm_multiply_x_8(res,
                                                            cache.reduce))}})

\* gcm_multiply_key using the tables as it finds them, whatever key they
\* were built for
gcm_multiply_key_NoCheck(keyptr, key, poly, cache, uninit) ==
    [poly |-> gcm_multiply_loop(poly, Entry(cache.mult, poly[BlockSize]),
                                BlockSize - 1, cache),
     cache |-> cache]

\* gcm_multiply_key: the product and the cache as the call leaves it
gcm_multiply_key(keyptr, key, poly, cache, uninit) ==
    Only({[poly |-> gcm_multiply_loop(poly,
                                      Entry(tables.mult, poly[BlockSize]),
                                      BlockSize - 1, tables),
           cache |-> tables] :
              tables \in {IF cache.key # keyptr
                          THEN gcm_cache(keyptr, key, cache, uninit)
                          ELSE cache}})

-----------------------------------------------------------------------------
(* The underlying block cipher (outside gcm.c): a keyed permutation of    *)
(* 16-byte blocks with a key schedule, and a set-key operation that       *)
(* rejects keys of a length it does not support.                          *)

\* the key length the cipher accepts
CipherKeyLen == 16

\* the status code of a rejected key ( -EINVAL )
CipherError == -22

\* the struct cipher_algorithm handed to gcm_setkey
RawCipher == "raw_cipher"

\* cipher_setkey: the status code and the key schedule written to raw_ctx
cipher_setkey(raw_ctx, key, keylen) ==
    IF keylen = CipherKeyLen
    THEN [rc |-> 0, raw_ctx |-> key]
    ELSE [rc |-> CipherError, raw_ctx |-> raw_ctx]

\* cipher_encrypt of one block: rotate the bytes by one place and add the
\* key schedule and a position constant to each byte
cipher_encrypt(raw_ctx, src) ==
    Stored([i \in 1..BlockSize |->
        (src[(i % BlockSize) + 1] + raw_ctx[i] + 13 * i) % 256])

-----------------------------------------------------------------------------
(* The context and the streaming operations *)

NULL == "NULL"

\* struct gcm_context, all bytes zero (after memset)
ZeroContext ==
    [hash |-> ZeroBlock,
     len |-> [add |-> Zero64, data |-> Zero64],
     ctr |-> ZeroBlock,
     key |-> ZeroBlock,
     raw_cipher |-> NULL,
     raw_ctx |-> ZeroBlock]

\* the bytes buf[off + 1 .. off + n]
Bytes(buf, off, n) == Stored([i \in 1..n |-> buf[off + i]])

\* buf with the bytes frag stored at offset off
Store(buf, off, frag) ==
    Stored([i \in 1..Len(buf) |->
        IF i > off /\ i <= off + Len(frag) THEN frag[i - off] ELSE buf[i]])

\* HashXor with the fragment aligned to the end of the block
HashXor_Left(hash, frag) ==
    Stored([i \in 1..BlockSize |->
        IF i > BlockSize - Len(frag)
        THEN Xor8(frag[i - (BlockSize - Len(frag))], hash[i])
        ELSE hash[i]])

\* context->hash after gcm_xor ( hash, &context->hash, &context->hash,
\* frag_len ): only the first frag_len bytes change
HashXor(hash, frag) ==
    Stored([i \in 1..BlockSize |->
        IF i <= Len(frag) THEN Xor8(frag[i], hash[i]) ELSE hash[i]])

\* gcm_process_step advancing the counter once per call rather than once
\* per block
gcm_process_step_PerCall(st, keyptr, src, dst, hash, off, frag_len, uninit) ==
    LET ctr == IF dst # NULL /\ off = 0
               THEN gcm_count(st.context.ctr, U32(1))
               ELSE st.context.ctr
        tmp == cipher_encrypt(st.context.raw_ctx, ctr)
        mem == IF dst # NULL
               THEN [st.mem EXCEPT ![dst] =
                        Store(st.mem[dst], off,
                              gcm_xor(Bytes(st.mem[src], off, frag_len),
                                      tmp, frag_len))]
               ELSE st.mem
        xored == HashXor(st.context.hash, Bytes(mem[hash], off, frag_len))
        prod == gcm_multiply_key(keyptr, st.context.key, xored, st.cache,
                                 uninit)
    IN  [context |-> [st.context EXCEPT !.ctr = ctr, !.hash = prod.poly],
         cache |-> prod.cache,
         mem |-> mem,
         encrypts |-> st.encrypts + (IF dst # NULL THEN 1 ELSE 0)]

\* gcm_process_step storing the whole block of src xor keystream, not only
\* its first frag_len bytes
gcm_process_step_WholeBlock(st, keyptr, src, dst, hash, off, frag_len, uninit) ==
    LET ctr == IF dst # NULL THEN gcm_count(st.context.ctr, U32(1))
               ELSE st.context.ctr
        tmp == cipher_encrypt(st.context.raw_ctx, ctr)
        mem == IF dst # NULL
               THEN [st.mem EXCEPT ![dst] =
                        Store(st.mem[dst], off,
                              gcm_xor(Bytes(st.mem[src], off, frag_len),
                                      tmp, frag_len)
                              \o SubSeq(tmp, frag_len + 1, BlockSize))]
               ELSE st.mem
        xored == HashXor(st.context.hash, Bytes(mem[hash], off, frag_len))
        prod == gcm_multiply_key(keyptr, st.context.key, xored, st.cache,
                                 uninit)
    IN  [context |-> [st.context EXCEPT !.ctr = ctr, !.hash = prod.poly],
         cache |-> prod.cache,
         mem |-> mem,
         encrypts |-> st.encrypts + (IF dst # NULL THEN 1 ELSE 0)]

\* One pass of the loop of gcm_process over the fragment at offset off.
\* st is [context, cache, mem, encrypts]: the context, the table cache, the
\* caller's buffers by name, and the number of cipher_encrypt calls so far.
\* src, dst and hash are buffer names or NULL.
gcm_process_step(st, keyptr, src, dst, hash, off, frag_len, uninit) ==
    LET ctr == IF dst # NULL THEN gcm_count(st.context.ctr, U32(1))
               ELSE st.context.ctr
        tmp == cipher_encrypt(st.context.raw_ctx, ctr)
        mem == IF dst # NULL
               THEN [st.mem EXCEPT ![dst] =
                        Store(st.mem[dst], off,
                              gcm_xor(Bytes(st.mem[src], off, frag_len),
                                      tmp, frag_len))]
               ELSE st.mem
        xored == HashXor(st.context.hash, Bytes(mem[hash], off, frag_len))
        prod == gcm_multiply_key(keyptr, st.context.key, xored, st.cache,
                                 uninit)
    IN  [context |-> [st.context EXCEPT !.ctr = ctr, !.hash = prod.poly],
         cache |-> prod.cache,
         mem |-> mem,
         encrypts |-> st.encrypts + (IF dst # NULL THEN 1 ELSE 0)]

RECURSIVE gcm_process_loop(_, _, _, _, _, _, _, _)
gcm_process_loop(st, keyptr, src, dst, hash, off, len, uninit) ==
    IF len = 0 THEN st
    ELSE LET frag_len == IF len > BlockSize THEN BlockSize ELSE len
         IN  Only({gcm_process_loop(next, keyptr, src, dst, hash,
                                    off + frag_len, len - frag_len, uninit) :
                      next \in {gcm_process_step(st, keyptr, src, dst, hash,
                                                 off, frag_len, uninit)}})

\* gcm_process storing the length of the call in the total rather than
\* adding it
gcm_process_Assign(st, keyptr, src, dst, hash, len, uninit) ==
    LET counted ==
            IF src # NULL
            THEN [st EXCEPT !.context.len.data = Add64(Zero64, len * 8)]
            ELSE [st EXCEPT !.context.len.add = Add64(Zero64, len * 8)]
    IN  gcm_process_loop(counted, keyptr, src, dst, hash, 0, len, uninit)

\* gcm_process adding the length of the call to the other total
gcm_process_Swapped(st, keyptr, src, dst, hash, len, uninit) ==
    LET counted ==
            IF src # NULL
            THEN [st EXCEPT !.context.len.add = Add64(@, len * 8)]
            ELSE [st EXCEPT !.context.len.data = Add64(@, len * 8)]
    IN  gcm_process_loop(counted, keyptr, src, dst, hash, 0, len, uninit)

\* gcm_process: update the total length, then process the fragments
gcm_process(st, keyptr, src, dst, hash, len, uninit) ==
    LET counted ==
            IF src # NULL
            THEN [st EXCEPT !.context.len.data = Add64(@, len * 8)]
            ELSE [st EXCEPT !.context.len.add = Add64(@, len * 8)]
    IN  gcm_process_loop(counted, keyptr, src, dst, hash, 0, len, uninit)

\* gcm_hash: the block written to *hash, and the cache as the call leaves it
gcm_hash(context, keyptr, cache, uninit) ==
    LET lengths == cpu_to_be64(context.len.add)
                   \o cpu_to_be64(context.len.data)
    IN  gcm_multiply_key(keyptr, context.key,
                         gcm_xor_block(context.hash, lengths), cache, uninit)

\* gcm_tag rewinding the counter by the whole blocks of data only
\* ( -( len.data / 128 ) rather than ( -len.data ) / 128 )
gcm_tag_RoundDown(context, keyptr, cache, uninit) ==
    LET hashed == gcm_hash(context, keyptr, cache, uninit)
        offset == Trunc32(Neg64(Div128(context.len.data)))
        tmp == cipher_encrypt(context.raw_ctx,
                              gcm_count(context.ctr, offset))
    IN  [tag |-> gcm_xor_block(tmp, hashed.poly), cache |-> hashed.cache,
         context |-> context, encrypts |-> 1]

\* gcm_tag returning the hash without the encrypted initial counter
gcm_tag_NoCounter(context, keyptr, cache, uninit) ==
    LET hashed == gcm_hash(context, keyptr, cache, uninit)
    IN  [tag |-> hashed.poly, cache |-> hashed.cache,
         context |-> context, encrypts |-> 0]

\* gcm_tag rewinding the counter in the context rather than in a copy
gcm_tag_InPlace(context, keyptr, cache, uninit) ==
    LET hashed == gcm_hash(context, keyptr, cache, uninit)
        offset == Trunc32(Div128(Neg64(context.len.data)))
        ctr == gcm_count(context.ctr, offset)
        tmp == cipher_encrypt(context.raw_ctx, ctr)
    IN  [tag |-> gcm_xor_block(tmp, hashed.poly), cache |-> hashed.cache,
         context |-> [context EXCEPT !.ctr = ctr], encrypts |-> 1]

\* gcm_tag: the tag written, the cache and the context as the call leaves
\* them (the counter is rewound in the copy tmp, not in the context)
gcm_tag(context, keyptr, cache, uninit) ==
    LET hashed == gcm_hash(context, keyptr, cache, uninit)
        offset == Trunc32(Div128(Neg64(context.len.data)))
        tmp == cipher_encrypt(context.raw_ctx,
                              gcm_count(context.ctr, offset))
    IN  [tag |-> gcm_xor_block(tmp, hashed.poly), cache |-> hashed.cache,
         context |-> context, encrypts |-> 1]

\* gcm_setkey without the memset of the context
gcm_setkey_NoMemset(context, keyptr, key, keylen, raw_cipher, cache, uninit) ==
    LET zeroed == [context EXCEPT !.raw_cipher = raw_cipher]
        set == cipher_setkey(zeroed.raw_ctx, key, keylen)
        keyed == [zeroed EXCEPT !.raw_ctx = set.raw_ctx]
        hkey == cipher_encrypt(keyed.raw_ctx, keyed.ctr)
    IN  IF set.rc # 0
        THEN [rc |-> set.rc, context |-> keyed, cache |-> cache,
              encrypts |-> 0]
        ELSE [rc |-> 0,
              context |-> [keyed EXCEPT
                             !.key = hkey,
                             !.ctr = SubSeq(keyed.ctr, 1, IvSize)
                                     \o cpu_to_be32(U32(1))],
              cache |-> gcm_cache(keyptr, hkey, cache, uninit),
              encrypts |-> 1]

\* gcm_setkey deriving the hash key and the tables before it looks at the
\* status of cipher_setkey
gcm_setkey_CacheFirst(context, keyptr, key, keylen, raw_cipher, cache, uninit) ==
    LET zeroed == [ZeroContext EXCEPT !.raw_cipher = raw_cipher]
        set == cipher_setkey(zeroed.raw_ctx, key, keylen)
        keyed == [zeroed EXCEPT !.raw_ctx = set.raw_ctx]
        hkey == cipher_encrypt(keyed.raw_ctx, keyed.ctr)
        done == [keyed EXCEPT
                   !.key = hkey,
                   !.ctr = SubSeq(keyed.ctr, 1, IvSize)
                           \o cpu_to_be32(U32(1))]
    IN  [rc |-> set.rc, context |-> done,
         cache |-> gcm_cache(keyptr, hkey, cache, uninit), encrypts |-> 1]

\* gcm_setkey: the return status, the context and the cache on return; the
\* memset leaves nothing of the context the call was given
gcm_setkey(context, keyptr, key, keylen, raw_cipher, cache, uninit) ==
    LET zeroed == [ZeroContext EXCEPT !.raw_cipher = raw_cipher]
        set == cipher_setkey(zeroed.raw_ctx, key, keylen)
        keyed == [zeroed EXCEPT !.raw_ctx = set.raw_ctx]
        hkey == cipher_encrypt(keyed.raw_ctx, keyed.ctr)
    IN  IF set.rc # 0
        THEN [rc |-> set.rc, context |-> keyed, cache |-> cache,
              encrypts |-> 0]
        ELSE [rc |-> 0,
              context |-> [keyed EXCEPT
                             !.key = hkey,
                             !.ctr = SubSeq(keyed.ctr, 1, IvSize)
                                     \o cpu_to_be32(U32(1))],
              cache |-> gcm_cache(keyptr, hkey, cache, uninit),
              encrypts |-> 1]

\* gcm_setiv clearing the whole context, the key included
gcm_setiv_ClearKey(context, keyptr, iv, ivlen, cache, uninit) ==
    LET reset == [context EXCEPT
                    !.hash = ZeroBlock,
                    !.len = [add |-> Zero64, data |-> Zero64],
                    !.key = ZeroBlock,
                    !.ctr = SubSeq(ZeroBlock, 1, IvSize)
                            \o cpu_to_be32(U32(1))]
    IN  IF ivlen = IvSize
        THEN [context |-> [reset EXCEPT
                             !.ctr = Bytes(iv, 0, ivlen)
                                     \o SubSeq(reset.ctr, IvSize + 1,
                                               BlockSize)],
              cache |-> cache,
              encrypts |-> 0]
        ELSE LET st == gcm_process([context |-> reset, cache |-> cache,
                                    mem |-> [iv |-> iv], encrypts |-> 0],
                                   keyptr, "iv", NULL, "iv", ivlen, uninit)
                 hashed == gcm_hash(st.context, keyptr, st.cache, uninit)
             IN  [context |-> [st.context EXCEPT
                                 !.ctr = hashed.poly,
                                 !.hash = ZeroBlock,
                                 !.len = [add |-> Zero64, data |-> Zero64]],
                  cache |-> hashed.cache,
                  encrypts |-> st.encrypts]

\* gcm_setiv without the first memset: only the counter is reset
gcm_setiv_NoReset(context, keyptr, iv, ivlen, cache, uninit) ==
    LET reset == [context EXCEPT
                    !.ctr = SubSeq(ZeroBlock, 1, IvSize)
                            \o cpu_to_be32(U32(1))]
    IN  IF ivlen = IvSize
        THEN [context |-> [reset EXCEPT
                             !.ctr = Bytes(iv, 0, ivlen)
                                     \o SubSeq(reset.ctr, IvSize + 1,
                                               BlockSize)],
              cache |-> cache,
              encrypts |-> 0]
        ELSE LET st == gcm_process([context |-> reset, cache |-> cache,
                                    mem |-> [iv |-> iv], encrypts |-> 0],
                                   keyptr, "iv", NULL, "iv", ivlen, uninit)
                 hashed == gcm_hash(st.context, keyptr, st.cache, uninit)
             IN  [context |-> [st.context EXCEPT
                                 !.ctr = hashed.poly,
                                 !.hash = ZeroBlock,
                                 !.len = [add |-> Zero64, data |-> Zero64]],
                  cache |-> hashed.cache,
                  encrypts |-> st.encrypts]

\* gcm_setiv hashing the IV as additional data (src NULL), so that its
\* length lands in the other half of the lengths block
gcm_setiv_AsAad(context, keyptr, iv, ivlen, cache, uninit) ==
    LET reset == [context EXCEPT
                    !.hash = ZeroBlock,
                    !.len = [add |-> Zero64, data |-> Zero64],
                    !.ctr = SubSeq(ZeroBlock, 1, IvSize)
                            \o cpu_to_be32(U32(1))]
    IN  IF ivlen = IvSize
        THEN [context |-> [reset EXCEPT
                             !.ctr = Bytes(iv, 0, ivlen)
                                     \o SubSeq(reset.ctr, IvSize + 1,
                                               BlockSize)],
              cache |-> cache,
              encrypts |-> 0]
        ELSE LET st == gcm_process([context |-> reset, cache |-> cache,
                                    mem |-> [iv |-> iv], encrypts |-> 0],
                                   keyptr, NULL, NULL, "iv", ivlen, uninit)
                 hashed == gcm_hash(st.context, keyptr, st.cache, uninit)
             IN  [context |-> [st.context EXCEPT
                                 !.ctr = hashed.poly,
                                 !.hash = ZeroBlock,
                                 !.len = [add |-> Zero64, data |-> Zero64]],
                  cache |-> hashed.cache,
                  encrypts |-> st.encrypts]

\* gcm_setiv: the context, the cache and the cipher_encrypt count on return
gcm_setiv(context, keyptr, iv, ivlen, cache, uninit) ==
    LET reset == [context EXCEPT
                    !.hash = ZeroBlock,
                    !.len = [add |-> Zero64, data |-> Zero64],
                    !.ctr = SubSeq(ZeroBlock, 1, IvSize)
                            \o cpu_to_be32(U32(1))]
    IN  IF ivlen = IvSize
        THEN [context |-> [reset EXCEPT
                             !.ctr = Bytes(iv, 0, ivlen)
                                     \o SubSeq(reset.ctr, IvSize + 1,
                                               BlockSize)],
              cache |-> cache,
              encrypts |-> 0]
        ELSE LET st == gcm_process([context |-> reset, cache |-> cache,
                                    mem |-> [iv |-> iv], encrypts |-> 0],
                                   keyptr, "iv", NULL, "iv", ivlen, uninit)
                 hashed == gcm_hash(st.context, keyptr, st.cache, uninit)
             IN  [context |-> [st.context EXCEPT
                                 !.ctr = hashed.poly,
                                 !.hash = ZeroBlock,
                                 !.len = [add |-> Zero64, data |-> Zero64]],
                  cache |-> hashed.cache,
                  encrypts |-> st.encrypts]

\* gcm_encrypt passing src on when there is no destination, so that the
\* length is counted as data
gcm_encrypt_KeepSrc(st, keyptr, src, dst, len, uninit) ==
    IF dst # NULL
    THEN gcm_process(st, keyptr, src, dst, dst, len, uninit)
    ELSE gcm_process(st, keyptr, src, dst, src, len, uninit)

\* gcm_encrypt: hash the output when encrypting, the input when
\* authenticating
gcm_encrypt(st, keyptr, src, dst, len, uninit) ==
    IF dst # NULL
    THEN gcm_process(st, keyptr, src, dst, dst, len, uninit)
    ELSE gcm_process(st, keyptr, NULL, dst, src, len, uninit)

\* gcm_decrypt hashing what it wrote rather than what it read
gcm_decrypt_HashDst(st, keyptr, src, dst, len, uninit) ==
    IF dst # NULL
    THEN gcm_process(st, keyptr, src, dst, dst, len, uninit)
    ELSE gcm_process(st, keyptr, NULL, dst, src, len, uninit)

\* gcm_decrypt: hash the input
gcm_decrypt(st, keyptr, src, dst, len, uninit) ==
    IF dst # NULL
    THEN gcm_process(st, keyptr, src, dst, src, len, uninit)
    ELSE gcm_process(st, keyptr, NULL, dst, src, len, uninit)

-----------------------------------------------------------------------------
(* Bounds and inputs of the model *)

\* the most gcm_encrypt / gcm_decrypt calls made on a context per message
MaxCalls == 2

\* the contexts (a context's name stands for its address)
Contexts == {"c1", "c2"}

\* values the uninitialised local etyb of gcm_reverse may start from
UninitBytes == {0, 255}

\* key material: the bytes of the key with a given seed
KeyBytes(seed, keylen) ==
    Stored([i \in 1..keylen |-> (seed * 37 + i * 11) % 256])

\* a 96-bit initialisation vector
Iv12 == Stored([i \in 1..IvSize |-> (i * 17 + 3) % 256])

\* a short initialisation vector, hashed into the counter block
Iv5 == <<202, 254, 186, 190, 250>>

\* a 128-bit initialisation vector that the hash key of the key with seed 1
\* hashes to a counter block whose counter field is 0xffffffff
IvWrap == <<68, 252, 26, 104, 133, 163, 94, 207,
            127, 68, 107, 47, 253, 242, 52, 44>>

\* the additional data and the plaintext a caller passes: byte k of the
\* message
AadByte(k) == (k * 29 + 7) % 256
DataByte(k) == (k * 53 + 101) % 256

\* contents of memory that was never written
Garbage(n) == Stored([i \in 1..n |-> 165])

GarbageContext ==
    [hash |-> Garbage(BlockSize),
     len |-> [add |-> <<1, 2, 3, 4>>, data |-> <<5, 6, 7, 8>>],
     ctr |-> Garbage(BlockSize),
     key |-> Garbage(BlockSize),
     raw_cipher |-> "garbage",
     raw_ctx |-> Garbage(BlockSize)]

-----------------------------------------------------------------------------
(* State *)

VARIABLES
    context,            \* the struct gcm_context at each address
    gcm_cached_key,     \* address of the hash key the tables are for, or NULL
    gcm_cached_mult,    \* M0[0..255]
    gcm_cached_reduce,  \* R[0..255], as bytes in memory
    io,                 \* per context: what the caller passed and received
    last                \* the last call made and what it did

vars == <<context, gcm_cached_key, gcm_cached_mult, gcm_cached_reduce,
          io, last>>

Cache == [key |-> gcm_cached_key, mult |-> gcm_cached_mult,
          reduce |-> gcm_cached_reduce]

\* what the caller has seen of a context since the last gcm_setkey /
\* gcm_setiv (<<>> where there is nothing yet): <<rc>> of gcm_setkey, the
\* key and IV given, the context on return from gcm_setkey / gcm_setiv,
\* the calls made since (kind "aad", "enc" or "dec", and length), the bytes
\* passed as additional data and as data, the bytes received, and the tag
\* if gcm_tag was the last call
NoIo == [rc |-> <<>>, key |-> <<>>, iv |-> <<>>, start |-> <<>>,
         calls |-> <<>>, aad |-> <<>>, src |-> <<>>, dst |-> <<>>,
         tag |-> <<>>, keys |-> 0]

\* the last call: the function (dec: gcm_decrypt rather than gcm_encrypt),
\* the context, the number of cipher_encrypt calls it made, its len argument
\* and the destination buffer after it; for gcm_setkey and gcm_setiv also
\* the call before it on the same context (was)
NoCall ==
    [op |-> "none", ctx |-> NULL, dec |-> FALSE, encrypts |-> 0, len |-> 0,
     out |-> <<>>, was |-> "none"]

\* the call before this one, if it was on context c
Was(c) == IF last.ctx = c THEN last.op ELSE "none"

\* bytes of the destination buffer past the len bytes asked for
Slack == 4

SetCache(cache) ==
    /\ gcm_cached_key' = cache.key
    /\ gcm_cached_mult' = cache.mult
    /\ gcm_cached_reduce' = cache.reduce

\* the tables live in .bss: zero until first built
Init ==
    /\ context \in {[c \in Contexts |-> ZeroContext],
                    [c \in Contexts |-> GarbageContext]}
    /\ gcm_cached_key = NULL
    /\ gcm_cached_mult = Stored([i \in 1..TableSize |-> ZeroBlock])
    /\ gcm_cached_reduce = Stored([i \in 1..TableSize |-> <<0, 0>>])
    /\ io = [c \in Contexts |-> NoIo]
    /\ last = NoCall

\* a context is keyed once gcm_setkey has returned 0 on it
Keyed(c) == io[c].rc = <<0>>

-----------------------------------------------------------------------------
(* Operations *)

\* gcm_setkey ( &context[c], key, keylen, raw_cipher )
SetKey(c, seed, keylen, uninit) ==
    \E r \in {gcm_setkey(context[c], c, KeyBytes(seed, keylen), keylen,
                         RawCipher, Cache, uninit)} :
        /\ context' = [context EXCEPT ![c] = r.context]
        /\ SetCache(r.cache)
        /\ io' = [io EXCEPT ![c] =
                    [NoIo EXCEPT !.rc = <<r.rc>>,
                                 !.key = KeyBytes(seed, keylen),
                                 !.start = r.context,
                                 !.keys = io[c].keys + 1]]
        /\ last' = [op |-> "setkey", ctx |-> c, dec |-> FALSE,
                    encrypts |-> r.encrypts,
                    len |-> keylen, out |-> <<>>, was |-> Was(c)]

\* gcm_setiv ( &context[c], iv, ivlen ) on a keyed context
SetIv(c, iv, uninit) ==
    /\ Keyed(c)
    /\ \E r \in {gcm_setiv(context[c], c, iv, Len(iv), Cache, uninit)} :
           /\ context' = [context EXCEPT ![c] = r.context]
           /\ SetCache(r.cache)
           /\ io' = [io EXCEPT ![c] =
                       [NoIo EXCEPT !.rc = io[c].rc, !.key = io[c].key,
                                    !.iv = iv, !.start = r.context,
                                    !.keys = io[c].keys]]
           /\ last' = [op |-> "setiv", ctx |-> c, dec |-> FALSE,
                       encrypts |-> r.encrypts,
                       len |-> Len(iv), out |-> <<>>, was |-> Was(c)]

\* the state gcm_process starts from: the context, the tables and the
\* caller's buffers
Start(c, mem) ==
    [context |-> context[c], cache |-> Cache, mem |-> mem, encrypts |-> 0]

\* gcm_encrypt / gcm_decrypt ( &context[c], src, NULL, len ): the next len
\* bytes of additional data
Aad(c, dec, len, uninit) ==
    /\ Keyed(c)
    /\ Len(io[c].calls) < MaxCalls
    /\ \E src \in {Stored([i \in 1..len |-> AadByte(Len(io[c].aad) + i)])} :
       \E mem \in {[in |-> src, out |-> Garbage(len + Slack)]} :
       \E r \in {IF dec
                 THEN gcm_decrypt(Start(c, mem), c, "in", NULL, len, uninit)
                 ELSE gcm_encrypt(Start(c, mem), c, "in", NULL, len,
                                  uninit)} :
           /\ context' = [context EXCEPT ![c] = r.context]
           /\ SetCache(r.cache)
           /\ io' = [io EXCEPT
                       ![c].calls = Append(@, [kind |-> "aad",
                                               len |-> len]),
                       ![c].aad = @ \o src,
                       ![c].tag = <<>>]
           /\ last' = [op |-> "aad", ctx |-> c, dec |-> dec,
                       encrypts |-> r.encrypts,
                       len |-> len, out |-> r.mem.out, was |-> "none"]

\* gcm_encrypt / gcm_decrypt ( &context[c], src, dst, len ) with a
\* destination: dst is a buffer of its own, or (alias) src itself
Data(c, dec, alias, src, uninit) ==
    /\ Keyed(c)
    /\ Len(io[c].calls) < MaxCalls
    /\ \E dst \in {IF alias THEN "in" ELSE "out"} :
       \E mem \in {[in |-> src, out |-> Garbage(Len(src) + Slack)]} :
       \E r \in {IF dec
                 THEN gcm_decrypt(Start(c, mem), c, "in", dst, Len(src),
                                  uninit)
                 ELSE gcm_encrypt(Start(c, mem), c, "in", dst, Len(src),
                                  uninit)} :
           /\ context' = [context EXCEPT ![c] = r.context]
           /\ SetCache(r.cache)
           /\ io' = [io EXCEPT
                       ![c].calls =
                           Append(@, [kind |-> IF dec THEN "dec" ELSE "enc",
                                      len |-> Len(src)]),
                       ![c].src = @ \o src,
                       ![c].dst = @ \o SubSeq(r.mem[dst], 1, Len(src)),
                       ![c].tag = <<>>]
           /\ last' = [op |-> "data", ctx |-> c, dec |-> dec,
                       encrypts |-> r.encrypts,
                       len |-> Len(src), out |-> r.mem[dst],
                       was |-> "none"]

\* gcm_tag ( &context[c], tag )
Tag(c, uninit) ==
    /\ Keyed(c)
    /\ \E r \in {gcm_tag(context[c], c, Cache, uninit)} :
           /\ context' = [context EXCEPT ![c] = r.context]
           /\ SetCache(r.cache)
           /\ io' = [io EXCEPT ![c].tag = r.tag]
           /\ last' = [op |-> "tag", ctx |-> c, dec |-> FALSE,
                       encrypts |-> r.encrypts,
                       len |-> 0, out |-> r.tag, was |-> "none"]

\* the next len bytes of the plaintext of context c
Plain(c, len) ==
    Stored([i \in 1..len |-> DataByte(Len(io[c].src) + i)])

-----------------------------------------------------------------------------
(* Specifications *)

\* the values etyb of gcm_reverse may hold in a call on context c: it is
\* read only when gcm_cache runs, that is on a miss of the cache
Uninit(c) == IF gcm_cached_key # c THEN UninitBytes ELSE {0}

\* One context, keyed once, used for one message after another, each split
\* into calls in every way the lengths allow.
StreamNext ==
    \/ \E uninit \in UninitBytes :
           ~Keyed("c1") /\ SetKey("c1", 1, CipherKeyLen, uninit)
    \/ \E uninit \in Uninit("c1"), iv \in {Iv12, Iv5, IvWrap} :
           SetIv("c1", iv, uninit)
    \/ \E uninit \in Uninit("c1"), dec \in BOOLEAN, len \in {5, 16, 21} :
           Aad("c1", dec, len, uninit)
    \/ \E uninit \in Uninit("c1"), dec \in BOOLEAN, len \in {5, 16, 21} :
           Data("c1", dec, FALSE, Plain("c1", len), uninit)
    \/ \E uninit \in Uninit("c1") : Tag("c1", uninit)

Spec == Init /\ [][StreamNext]_vars

\* the most gcm_setkey calls made on a context
MaxKeys == 2

\* a key length the underlying cipher refuses
BadKeyLen == 5

\* One context keyed again and again, each time with another key the cipher
\* accepts or with a key length it refuses, at any point of a message.
KeyNext ==
    \/ \E uninit \in UninitBytes :
           /\ io["c1"].keys < MaxKeys
           /\ SetKey("c1", io["c1"].keys + 1, CipherKeyLen, uninit)
    \/ \E uninit \in UninitBytes :
           /\ io["c1"].keys < MaxKeys
           /\ SetKey("c1", 1, BadKeyLen, uninit)
    \/ \E uninit \in Uninit("c1"), iv \in {Iv12, Iv5} :
           SetIv("c1", iv, uninit)
    \/ \E uninit \in Uninit("c1"), dec \in BOOLEAN :
           Aad("c1", dec, 5, uninit)
    \/ \E uninit \in Uninit("c1"), dec \in BOOLEAN, alias \in BOOLEAN :
           Data("c1", dec, alias, Plain("c1", 21), uninit)
    \/ \E uninit \in Uninit("c1") : Tag("c1", uninit)

KeySpec == Init /\ [][KeyNext]_vars

\* the next len bytes of the ciphertext context e produced, for context d
\* to decrypt
Cipher(e, d, len) ==
    SubSeq(io[e].dst, Len(io[d].src) + 1, Len(io[d].src) + len)

\* context d has been given an IV or bytes
Started(d) == io[d].iv # <<>> \/ io[d].calls # <<>>

\* Two contexts with the same key: c1 encrypts a message and produces its
\* tag, then c2, given the IV of c1, decrypts what c1 produced, in calls of
\* its own choice.  c2 may be keyed at any time, so that the tables change
\* hands between the two.
PairNext ==
    \/ \E uninit \in UninitBytes, c \in Contexts :
           /\ ~Keyed(c)
           /\ c = "c2" => ~Started("c1") \/ io["c1"].tag # <<>>
           /\ SetKey(c, 1, CipherKeyLen, uninit)
    \/ \E uninit \in Uninit("c1"), iv \in {Iv12, Iv5} :
           /\ ~Started("c1")
           /\ SetIv("c1", iv, uninit)
    \/ \E uninit \in Uninit("c1") :
           /\ io["c1"].tag = <<>>
           /\ Aad("c1", FALSE, 5, uninit)
    \/ \E uninit \in Uninit("c1"), len \in {5, 16} :
           /\ io["c1"].tag = <<>>
           /\ Data("c1", FALSE, FALSE, Plain("c1", len), uninit)
    \/ \E uninit \in Uninit("c1") :
           /\ ~Started("c2")
           /\ Tag("c1", uninit)
    \/ \E uninit \in Uninit("c2") :
           /\ io["c1"].tag # <<>>
           /\ io["c1"].iv # <<>>
           /\ ~Started("c2")
           /\ SetIv("c2", io["c1"].iv, uninit)
    \/ \E uninit \in Uninit("c2") :
           /\ io["c1"].tag # <<>>
           /\ Aad("c2", TRUE, 5, uninit)
    \/ \E uninit \in Uninit("c2"), len \in {5, 16} :
           /\ io["c1"].tag # <<>>
           /\ Len(io["c2"].src) + len <= Len(io["c1"].dst)
           /\ Data("c2", TRUE, FALSE, Cipher("c1", "c2", len), uninit)
    \/ \E uninit \in Uninit("c2") :
           /\ io["c1"].tag # <<>>
           /\ Tag("c2", uninit)

PairSpec == Init /\ [][PairNext]_vars

\* One context, keyed once, whose calls may also pass no bytes at all.
LenNext ==
    \/ \E uninit \in UninitBytes :
           ~Keyed("c1") /\ SetKey("c1", 1, CipherKeyLen, uninit)
    \/ \E uninit \in Uninit("c1") : SetIv("c1", Iv12, uninit)
    \/ \E uninit \in Uninit("c1"), dec \in BOOLEAN, len \in {0, 5} :
           Aad("c1", dec, len, uninit)
    \/ \E uninit \in Uninit("c1"), dec \in BOOLEAN, len \in {0, 5, 16} :
           Data("c1", dec, FALSE, Plain("c1", len), uninit)
    \/ \E uninit \in Uninit("c1") : Tag("c1", uninit)

LenSpec == Init /\ [][LenNext]_vars

\* One context, keyed once, on which gcm_tag is called before every call
\* that passes bytes.
TagNext ==
    \/ \E uninit \in UninitBytes :
           ~Keyed("c1") /\ SetKey("c1", 1, CipherKeyLen, uninit)
    \/ \E uninit \in Uninit("c1"), iv \in {Iv12, Iv5} :
           SetIv("c1", iv, uninit)
    \/ \E uninit \in Uninit("c1"), dec \in BOOLEAN, len \in {5, 16} :
           io["c1"].tag # <<>> /\ Aad("c1", dec, len, uninit)
    \/ \E uninit \in Uninit("c1"), dec \in BOOLEAN, len \in {5, 16} :
           /\ io["c1"].tag # <<>>
           /\ Data("c1", dec, FALSE, Plain("c1", len), uninit)
    \/ \E uninit \in Uninit("c1") : Tag("c1", uninit)

TagSpec == Init /\ [][TagNext]_vars

\* a call on context c comes right after gcm_setkey or after a call on the
\* other context
Turn(c) == last.ctx # c \/ last.op = "setkey"

\* Two contexts with different keys whose calls alternate, so that every
\* message is interrupted by calls on the other context; the first context
\* is keyed again in place with another key, or with a key the cipher
\* refuses.
ShareNext ==
    \/ \E uninit \in UninitBytes :
           /\ io["c1"].keys < MaxKeys
           /\ SetKey("c1", io["c1"].keys + 1, CipherKeyLen, uninit)
    \/ \E uninit \in UninitBytes :
           /\ io["c1"].keys < MaxKeys
           /\ SetKey("c1", 1, BadKeyLen, uninit)
    \/ \E uninit \in UninitBytes :
           /\ io["c2"].keys = 0
           /\ SetKey("c2", MaxKeys + 1, CipherKeyLen, uninit)
    \/ \E c \in Contexts : \E uninit \in Uninit(c) :
           /\ Turn(c)
           /\ io[c].iv = <<>>
           /\ io[c].calls = <<>>
           /\ SetIv(c, Iv5, uninit)
    \/ \E c \in Contexts : \E uninit \in Uninit(c) :
           Turn(c) /\ Data(c, FALSE, FALSE, Plain(c, 16), uninit)
    \/ \E c \in Contexts : \E uninit \in Uninit(c) :
           Turn(c) /\ Tag(c, uninit)

ShareSpec == Init /\ [][ShareNext]_vars

\* gcm_setkey ( &context[c], key, CipherKeyLen, raw_cipher ) up to its call
\* of gcm_cache: the context is cleared and keyed, the tables are still
\* what the build before left
SetKeyBegin(c, seed) ==
    /\ last.op # "gcm_cache"
    /\ \E r \in {gcm_setkey(context[c], c, KeyBytes(seed, CipherKeyLen),
                             CipherKeyLen, RawCipher, Cache, 0)} :
           /\ context' = [context EXCEPT ![c] = r.context]
           /\ io' = [io EXCEPT ![c] =
                       [NoIo EXCEPT !.key = KeyBytes(seed, CipherKeyLen),
                                    !.keys = io[c].keys + 1]]
           /\ last' = [op |-> "gcm_cache", ctx |-> c, dec |-> FALSE,
                       encrypts |-> r.encrypts, len |-> 0, out |-> <<>>,
                       was |-> Was(c)]
    /\ UNCHANGED <<gcm_cached_key, gcm_cached_mult, gcm_cached_reduce>>

\* one pass of the loop of gcm_cache ( &context[c].key ), last.len being
\* the value of i in the pass before
CacheStep(c, uninit) ==
    /\ last.op = "gcm_cache"
    /\ last.ctx = c
    /\ last.len < TableSize - 1
    /\ \E r \in {gcm_cache_step(context[c].key, Cache, last.len + 1,
                                 uninit)} :
           /\ gcm_cached_mult' = r.mult
           /\ gcm_cached_reduce' = r.reduce
    /\ last' = [last EXCEPT !.len = @ + 1]
    /\ UNCHANGED <<context, gcm_cached_key, io>>

\* the loop of gcm_cache is over: the cached key is recorded and gcm_setkey
\* returns 0
SetKeyEnd(c) ==
    /\ last.op = "gcm_cache"
    /\ last.ctx = c
    /\ last.len = TableSize - 1
    /\ gcm_cached_key' = c
    /\ io' = [io EXCEPT ![c].rc = <<0>>, ![c].start = context[c]]
    /\ last' = [last EXCEPT !.op = "setkey", !.len = CipherKeyLen]
    /\ UNCHANGED <<context, gcm_cached_mult, gcm_cached_reduce>>

\* gcm_setkey on one context after the other, each with a key of its own,
\* the loop of gcm_cache taken one pass at a time.
BuildNext ==
    \/ \E c \in Contexts :
           /\ io["c1"].keys + io["c2"].keys < MaxKeys
           /\ SetKeyBegin(c, io["c1"].keys + io["c2"].keys + 1)
    \/ \E c \in Contexts, uninit \in UninitBytes : CacheStep(c, uninit)
    \/ \E c \in Contexts : SetKeyEnd(c)

BuildSpec == Init /\ [][BuildNext]_vars

-----------------------------------------------------------------------------
(* What the claims are stated with *)

\* the calls of one kind among the calls made on a context
CallsOf(calls, kinds) == SelectSeq(calls, LAMBDA k : k.kind \in kinds)

\* every call of additional data comes before every call of data
PhaseOrdered(calls) ==
    \A i, j \in 1..Len(calls) :
        (i < j /\ calls[j].kind = "aad") => calls[i].kind = "aad"

\* every call but the last has a length that is a multiple of the block size
BlockAligned(calls) ==
    \A i \in 1..(Len(calls) - 1) : calls[i].len % BlockSize = 0

\* additional data, then data, only the last call of each phase partial
WellFormed(calls) ==
    /\ PhaseOrdered(calls)
    /\ BlockAligned(CallsOf(calls, {"aad"}))
    /\ BlockAligned(CallsOf(calls, {"enc", "dec"}))

\* all data calls on context c since gcm_setiv were gcm_encrypt calls
EncryptOnly(c) == \A i \in 1..Len(io[c].calls) : io[c].calls[i].kind # "dec"

\* The message of context c fed in one call for the additional data and one
\* call for the data, on the context as gcm_setiv (or gcm_setkey) left it:
\* the ciphertext, the tag and the context after the two calls.
OneCall(c) ==
    LET a == gcm_encrypt([context |-> io[c].start, cache |-> Cache,
                          mem |-> [in |-> io[c].aad], encrypts |-> 0],
                         c, "in", NULL, Len(io[c].aad), 0)
        d == gcm_encrypt([context |-> a.context, cache |-> a.cache,
                          mem |-> [in |-> io[c].src,
                                   out |-> Garbage(Len(io[c].src))],
                          encrypts |-> 0],
                         c, "in", "out", Len(io[c].src), 0)
    IN  [dst |-> d.mem.out,
         tag |-> gcm_tag(d.context, c, d.cache, 0).tag,
         context |-> d.context]

-----------------------------------------------------------------------------
(* The arithmetic of NIST SP 800-38D, bit by bit, to state the claims with *)

\* bit i (0 the leftmost) of a block
BitOf(block, i) == (block[(i \div 8) + 1] \div (2 ^ (7 - (i % 8)))) % 2

\* the bytewise exclusive or of two blocks
BlockXor(x, y) == Stored([i \in 1..BlockSize |-> Xor8(x[i], y[i])])

\* V >> 1, exclusive or R = 11100001 || 0^120 when the bit shifted out is 1
TimesX(v) ==
    Stored([i \in 1..BlockSize |->
        LET shifted == (v[i] \div 2) + (IF i > 1 THEN (v[i - 1] % 2) * 128
                                        ELSE 0)
        IN  IF i = 1 /\ v[BlockSize] % 2 = 1 THEN Xor8(shifted, 225)
            ELSE shifted])

\* X * Y in GF(2^128): Z accumulates V for every set bit of X
RECURSIVE GfMulLoop(_, _, _, _)
GfMulLoop(x, zv, lo, hi) ==
    IF lo = hi
    THEN [z |-> IF BitOf(x, lo) = 1 THEN BlockXor(zv.z, zv.v) ELSE zv.z,
          v |-> TimesX(zv.v)]
    ELSE LET mid == (lo + hi) \div 2
         IN  Only({GfMulLoop(x, half, mid + 1, hi) :
                      half \in {GfMulLoop(x, zv, lo, mid)}})

GfMul(x, y) == GfMulLoop(x, [z |-> ZeroBlock, v |-> y], 0, 127).z

\* bytes padded with zeros on the right to a whole block
PadBlock(bytes) ==
    Stored([i \in 1..BlockSize |-> IF i <= Len(bytes) THEN bytes[i] ELSE 0])

\* GHASH continued from y over bytes, the last block padded with zeros
RECURSIVE Ghash(_, _, _)
Ghash(h, y, bytes) ==
    IF Len(bytes) = 0 THEN y
    ELSE LET n == IF Len(bytes) > BlockSize THEN BlockSize ELSE Len(bytes)
         IN  Only({Ghash(h, next, SubSeq(bytes, n + 1, Len(bytes))) :
                      next \in {GfMul(BlockXor(y,
                                               PadBlock(SubSeq(bytes, 1, n))),
                                       h)}})

\* the lengths block: two byte counts as 64-bit big-endian bit counts
LengthsBlock(add, data) ==
    cpu_to_be64(Add64(Zero64, 8 * add)) \o cpu_to_be64(Add64(Zero64, 8 * data))

-----------------------------------------------------------------------------
(* C1 *)

\* C1 as stated: however the additional data and the data are split into
\* successive gcm_encrypt calls (lengths need not be multiples of 16), the
\* ciphertext and the tag are those of one call for the additional data and
\* one call for the data.
C1_AnyFragmentation ==
    \A c \in Contexts :
        (io[c].tag # <<>> /\ EncryptOnly(c) /\ PhaseOrdered(io[c].calls))
        => \A one \in {OneCall(c)} :
               io[c].dst = one.dst /\ io[c].tag = one.tag

\* C1 as amended: when every gcm_encrypt call except the last of the
\* additional data and the last of the data has a length that is a multiple
\* of 16 bytes, the ciphertext and the tag are those of one call for the
\* additional data and one call for the data.
C1_AlignedFragmentation ==
    \A c \in Contexts :
        (io[c].tag # <<>> /\ EncryptOnly(c) /\ WellFormed(io[c].calls))
        => \A one \in {OneCall(c)} :
               io[c].dst = one.dst /\ io[c].tag = one.tag

\* a tag was produced for data split into a whole block and a partial tail
C1_Witness ==
    \E c \in Contexts :
        /\ io[c].tag # <<>>
        /\ io[c].calls = <<[kind |-> "enc", len |-> 16],
                           [kind |-> "enc", len |-> 5]>>

-----------------------------------------------------------------------------
(* C9, C10 *)

\* a tag was produced for the message gcm_setiv started on context c
Tagged(c) == io[c].iv # <<>> /\ io[c].tag # <<>>

\* C9: after a well-formed sequence of calls following gcm_setiv, the tag is
\* ((Y xor L) * H) xor E_K(J0), Y the running hash, L the lengths block and
\* J0 the counter block gcm_setiv left; the counter field plus the offset
\* (-data_bits / 128) truncated to 32 bits is the counter field of J0.
C9_TagFormula ==
    \A c \in Contexts :
        (Tagged(c) /\ WellFormed(io[c].calls))
        => LET L == LengthsBlock(Len(io[c].aad), Len(io[c].src))
               offset == Trunc32(Div128(Neg64(context[c].len.data)))
           IN  /\ L = cpu_to_be64(context[c].len.add)
                      \o cpu_to_be64(context[c].len.data)
               /\ gcm_count(context[c].ctr, offset) = io[c].start.ctr
               /\ io[c].tag =
                      BlockXor(GfMul(BlockXor(context[c].hash, L),
                                     context[c].key),
                               cipher_encrypt(context[c].raw_ctx,
                                              io[c].start.ctr))

\* a tag after data whose last call was partial, the counter having wrapped
\* past 0xffffffff during the message
C9_Witness ==
    \E c \in Contexts :
        /\ Tagged(c)
        /\ io[c].iv = IvWrap
        /\ io[c].start.ctr[BlockSize] = 255
        /\ SubSeq(context[c].ctr, IvSize + 1, BlockSize) = <<0, 0, 0, 2>>
        /\ io[c].calls = <<[kind |-> "enc", len |-> 16],
                           [kind |-> "enc", len |-> 21]>>

\* C10: gcm_tag right after gcm_setiv, with no additional data and no data,
\* returns E_K(J0) (the hash of the zero lengths block from a zero
\* accumulator is zero), and there is no ciphertext.
C10_EmptyMessageTag ==
    \A c \in Contexts :
        (Tagged(c) /\ io[c].calls = <<>>)
        => /\ io[c].tag = cipher_encrypt(context[c].raw_ctx, io[c].start.ctr)
           /\ gcm_hash(context[c], c, Cache, 0).poly = ZeroBlock
           /\ io[c].dst = <<>>

\* a tag for an empty message under the hashed 5-byte IV
C10_Witness ==
    \E c \in Contexts :
        /\ Tagged(c)
        /\ io[c].calls = <<>>
        /\ io[c].iv = Iv5
        /\ last.op = "tag"

-----------------------------------------------------------------------------
(* C5, C6 *)

\* the hash and both length counters of a context are zero
Cleared(ctx) ==
    /\ ctx.hash = ZeroBlock
    /\ ctx.len = [add |-> Zero64, data |-> Zero64]

\* C5: on return from gcm_setiv with a 12-byte IV, whatever came before on
\* the keyed context, the counter block is the IV followed by the 32-bit
\* big-endian 1 and the hash and both length counters are zero.
C5_SetIv96 ==
    \A c \in Contexts :
        (last.op = "setiv" /\ last.ctx = c /\ last.len = IvSize)
        => /\ context[c].ctr = io[c].iv \o <<0, 0, 0, 1>>
           /\ Cleared(context[c])

\* gcm_setiv with the 12-byte IV in the middle of a message
C5_Witness ==
    /\ last.op = "setiv"
    /\ last.len = IvSize
    /\ last.was = "data"

\* C6: on return from gcm_setiv with an IV of n # 12 bytes, the counter
\* block is GHASH over the IV padded with zeros to whole blocks followed by
\* the lengths block 0^64 || 8n, the hash and both length counters are zero,
\* and the cipher was not invoked.
C6_SetIvHashed ==
    \A c \in Contexts :
        (last.op = "setiv" /\ last.ctx = c /\ last.len # IvSize)
        => /\ last.len = Len(io[c].iv)
           /\ context[c].ctr =
                  GfMul(BlockXor(Ghash(context[c].key, ZeroBlock, io[c].iv),
                                 LengthsBlock(0, Len(io[c].iv))),
                        context[c].key)
           /\ Cleared(context[c])
           /\ last.encrypts = 0

\* gcm_setiv with the 5-byte IV, after the tag of the message before
C6_Witness ==
    /\ last.op = "setiv"
    /\ last.len = 5
    /\ last.was = "tag"

-----------------------------------------------------------------------------
(* C8 *)

\* C8: a gcm_encrypt or gcm_decrypt call without a destination changes only
\* the hash and the count of additional data of its context: the counter
\* block, the count of data and the key stay, the cipher is not invoked,
\* nothing is written to the caller's buffers, and the hash is continued
\* over the bytes of src.
C8_AadFrame ==
    [][\A c \in Contexts :
           (last'.op = "aad" /\ last'.ctx = c)
           => LET src == SubSeq(io'[c].aad, Len(io[c].aad) + 1,
                                Len(io'[c].aad))
              IN  /\ Len(src) = last'.len
                  /\ context' =
                         [context EXCEPT
                            ![c].hash = Ghash(context[c].key, @, src),
                            ![c].len.add = Add64(@, 8 * last'.len)]
                  /\ last'.encrypts = 0
                  /\ last'.out = Garbage(last'.len + Slack)
                  /\ io'[c].dst = io[c].dst]_vars

\* gcm_decrypt without a destination absorbed 21 bytes after a first call
\* of additional data
C8_Witness ==
    /\ last.op = "aad"
    /\ last.dec
    /\ last.len = 21
    /\ Len(io[last.ctx].calls) = 2

-----------------------------------------------------------------------------
(* C2 *)

\* the calls made on d are those made on e, gcm_decrypt for gcm_encrypt
Mirrors(e, d) ==
    /\ Len(io[d].calls) = Len(io[e].calls)
    /\ \A i \in 1..Len(io[e].calls) :
           /\ io[d].calls[i].len = io[e].calls[i].len
           /\ io[e].calls[i].kind \in {"aad", "enc"}
           /\ io[d].calls[i].kind =
                  (IF io[e].calls[i].kind = "enc" THEN "dec" ELSE "aad")

\* C2: when context d, keyed with the key and given the IV and the
\* additional data of context e, decrypts into a buffer of its own the
\* ciphertext e produced, in the calls e made, d recovers the plaintext of
\* e, and the tags of the two contexts are equal.
C2_RoundTrip ==
    \A e, d \in Contexts :
        (/\ e # d
         /\ Keyed(e) /\ Keyed(d)
         /\ io[d].key = io[e].key
         /\ io[d].iv = io[e].iv
         /\ io[d].aad = io[e].aad
         /\ Mirrors(e, d)
         /\ io[d].src = io[e].dst)
        => /\ io[d].dst = io[e].src
           /\ (io[e].tag # <<>> /\ io[d].tag # <<>>) => io[d].tag = io[e].tag

\* both tags produced, for 5 bytes of additional data and 16 bytes of data
\* under the hashed IV
C2_Witness ==
    /\ io["c1"].tag # <<>>
    /\ io["c2"].tag = io["c1"].tag
    /\ io["c1"].iv = Iv5
    /\ io["c2"].iv = Iv5
    /\ Mirrors("c1", "c2")
    /\ Len(io["c2"].aad) = 5
    /\ Len(io["c1"].src) = 16
    /\ io["c2"].dst = io["c1"].src
    /\ io["c1"].dst # io["c1"].src

-----------------------------------------------------------------------------
(* C3, C4, C7 *)

\* C3: when the cipher accepts the key, gcm_setkey returns 0 and leaves the
\* hash key equal to the cipher applied to the zero block under the new key,
\* the hash and both length counters zero, and the counter block 0^96
\* followed by the 32-bit big-endian 1, whatever the context held before.
C3_SetKeyState ==
    \A c \in Contexts :
        (last.op = "setkey" /\ last.ctx = c /\ last.len = CipherKeyLen)
        => /\ io[c].rc = <<0>>
           /\ context[c].key =
                  cipher_encrypt(cipher_setkey(ZeroBlock, io[c].key,
                                               last.len).raw_ctx,
                                 ZeroBlock)
           /\ Cleared(context[c])
           /\ context[c].ctr = <<0, 0, 0, 0, 0, 0, 0, 0, 0, 0, 0, 0,
                                 0, 0, 0, 1>>

\* a second key set in the middle of a message under the first
C3_Witness ==
    /\ last.op = "setkey"
    /\ last.len = CipherKeyLen
    /\ last.was = "data"
    /\ io[last.ctx].keys = 2
    /\ io[last.ctx].key = KeyBytes(2, CipherKeyLen)

\* C4: gcm_setkey returns the status of cipher_setkey, non-zero exactly when
\* cipher_setkey fails; when it fails, no block is encrypted, the context is
\* left zero apart from raw_cipher and what cipher_setkey wrote to raw_ctx,
\* and the cached key and both tables are as before the call.
C4_SetKeyFailure ==
    [][\A c \in Contexts :
           (last'.op = "setkey" /\ last'.ctx = c)
           => LET set == cipher_setkey(ZeroBlock, io'[c].key, last'.len)
              IN  /\ io'[c].rc = <<set.rc>>
                  /\ (set.rc # 0)
                     => /\ last'.encrypts = 0
                        /\ context'[c] =
                               [ZeroContext EXCEPT
                                  !.raw_cipher = RawCipher,
                                  !.raw_ctx = set.raw_ctx]
                        /\ gcm_cached_key' = gcm_cached_key
                        /\ gcm_cached_mult' = gcm_cached_mult
                        /\ gcm_cached_reduce' = gcm_cached_reduce]_vars

\* gcm_setkey failed on a context that was in the middle of a message and
\* whose hash key the tables had been built for
C4_Witness ==
    /\ last.op = "setkey"
    /\ last.len = BadKeyLen
    /\ last.was = "data"
    /\ io[last.ctx].rc = <<CipherError>>
    /\ gcm_cached_key = last.ctx

\* C7: gcm_setiv, gcm_encrypt, gcm_decrypt and gcm_tag leave the hash key,
\* raw_cipher and raw_ctx of every context as they were; only gcm_setkey
\* changes them.
C7_KeyFixed ==
    [][last'.op # "setkey"
       => \A c \in Contexts :
              /\ context'[c].key = context[c].key
              /\ context'[c].raw_cipher = context[c].raw_cipher
              /\ context'[c].raw_ctx = context[c].raw_ctx]_vars

\* a tag after two calls under the second key of a context, the
\* hash key still the one gcm_setkey derived
C7_Witness ==
    /\ last.op = "tag"
    /\ io[last.ctx].keys = 2
    /\ io[last.ctx].iv = Iv5
    /\ Len(io[last.ctx].calls) = 2
    /\ context[last.ctx].key = io[last.ctx].start.key
    /\ context[last.ctx].key # ZeroBlock

-----------------------------------------------------------------------------
(* C11 *)

\* all data calls on context c since gcm_setiv were gcm_decrypt calls
DecryptOnly(c) == \A i \in 1..Len(io[c].calls) : io[c].calls[i].kind # "enc"

\* The message of context c fed in one call for the additional data and one
\* call for the data (gcm_decrypt calls if dec, gcm_encrypt calls if not),
\* on the context as gcm_setiv (or gcm_setkey) left it.  A phase without
\* bytes gets no call.
OneCallAs(c, dec) ==
    LET Call(st, dst, len) ==
            IF len = 0 THEN st
            ELSE IF dec THEN gcm_decrypt(st, c, "in", dst, len, 0)
            ELSE gcm_encrypt(st, c, "in", dst, len, 0)
        a == Call([context |-> io[c].start, cache |-> Cache,
                   mem |-> [in |-> io[c].aad, out |-> <<>>],
                   encrypts |-> 0],
                  NULL, Len(io[c].aad))
        d == Call([context |-> a.context, cache |-> a.cache,
                   mem |-> [in |-> io[c].src,
                            out |-> Garbage(Len(io[c].src))],
                   encrypts |-> 0],
                  "out", Len(io[c].src))
    IN  [dst |-> d.mem.out,
         tag |-> gcm_tag(d.context, c, d.cache, 0).tag,
         context |-> d.context]

\* C11: after any split of the additional data and of the data into calls
\* of which all but the last of each phase have a length that is a multiple
\* of 16 bytes, the context (hash, length counters, counter block), the
\* output and the tag are those of one call for the additional data and one
\* call for the data.
C11_AlignedEquivalence ==
    \A c \in Contexts :
        (Keyed(c) /\ WellFormed(io[c].calls)
         /\ (EncryptOnly(c) \/ DecryptOnly(c)))
        => \A one \in {OneCallAs(c, ~EncryptOnly(c))} :
               /\ context[c] = one.context
               /\ io[c].dst = one.dst
               /\ io[c].tag # <<>> => io[c].tag = one.tag

\* data decrypted in calls of 16 and 5 bytes under the hashed IV, two calls
\* where one call makes them one, and the tag
C11_Witness ==
    \E c \in Contexts :
        /\ io[c].iv = Iv5
        /\ io[c].calls = <<[kind |-> "dec", len |-> 16],
                           [kind |-> "dec", len |-> 5]>>
        /\ context[c].len.data = <<0, 0, 0, 168>>
        /\ io[c].tag # <<>>

-----------------------------------------------------------------------------
(* C12 *)

\* a 32-bit big-endian value in memory plus one, modulo 2^32, byte by byte
Inc32(b) ==
    IF b[4] < 255 THEN <<b[1], b[2], b[3], b[4] + 1>>
    ELSE IF b[3] < 255 THEN <<b[1], b[2], b[3] + 1, 0>>
    ELSE IF b[2] < 255 THEN <<b[1], b[2] + 1, 0, 0>>
    ELSE <<(b[1] + 1) % 256, 0, 0, 0>>

RECURSIVE Inc32Times(_, _)
Inc32Times(b, n) == IF n = 0 THEN b ELSE Inc32Times(Inc32(b), n - 1)

\* the counter block n blocks after ctr: the nonce field of ctr, then its
\* counter field plus n modulo 2^32
CounterBlock(ctr, n) ==
    SubSeq(ctr, 1, IvSize) \o Inc32Times(SubSeq(ctr, IvSize + 1, BlockSize), n)

\* the bytes the last call on context c passed as data
LastSrc(c) == SubSeq(io[c].src, Len(io[c].src) - last.len + 1, Len(io[c].src))

\* C12: a call with a destination, of L bytes, on a context with counter
\* block ctr writes src[k] xor byte k mod 16 of the cipher applied to the
\* counter block 1 + floor(k / 16) blocks after ctr, for 0 <= k < L, and
\* nothing else; it leaves the counter block ceil(L / 16) blocks after ctr.
\* Every call starts on a fresh keystream block.
C12_FreshKeystream ==
    [][\A c \in Contexts :
           (last'.op = "data" /\ last'.ctx = c)
           => LET L == last'.len
                  src == LastSrc(c)'
                  Key(k) == cipher_encrypt(context[c].raw_ctx,
                                           CounterBlock(context[c].ctr,
                                                        1 + (k \div 16)))
              IN  /\ \A k \in 0..(L - 1) :
                         last'.out[k + 1] =
                             Xor8(src[k + 1], Key(k)[(k % 16) + 1])
                  /\ \A k \in (L + 1)..Len(last'.out) :
                         last'.out[k] = Garbage(k)[k]
                  /\ context'[c].ctr =
                         CounterBlock(context[c].ctr, (L + 15) \div 16)
                  /\ last'.encrypts = (L + 15) \div 16]_vars

\* a call of 21 bytes, into a buffer longer than that, after a call of 5
\* bytes that left 11 bytes of its keystream block unused
C12_Witness ==
    /\ last.op = "data"
    /\ io[last.ctx].calls = <<[kind |-> "enc", len |-> 5],
                              [kind |-> "enc", len |-> 21]>>
    /\ Len(last.out) = 21 + Slack

-----------------------------------------------------------------------------
(* C13 *)

\* the keystream blocks the calls of a message used: ceil(len / 16) for
\* every call with a destination
RECURSIVE BlocksOf(_)
BlocksOf(calls) ==
    IF calls = <<>> THEN 0
    ELSE BlocksOf(Tail(calls))
         + (IF Head(calls).kind = "aad" THEN 0
            ELSE (Head(calls).len + 15) \div 16)

\* C13: after gcm_setiv, whatever calls and tags followed, the first 12
\* bytes of the counter block are those gcm_setiv left, and the last 4 bytes
\* are the 32-bit big-endian value gcm_setiv left plus one for every
\* keystream block, modulo 2^32: 0xffffffff is followed by 0x00000000
\* without a carry into the first 12 bytes.
C13_CounterField ==
    \A c \in Contexts :
        (Keyed(c) /\ io[c].iv # <<>>)
        => /\ SubSeq(context[c].ctr, 1, IvSize)
              = SubSeq(io[c].start.ctr, 1, IvSize)
           /\ SubSeq(context[c].ctr, IvSize + 1, BlockSize)
              = Inc32Times(SubSeq(io[c].start.ctr, IvSize + 1, BlockSize),
                           BlocksOf(io[c].calls))

\* a tag after one block of data from a counter field of 0xffffffff
C13_Witness ==
    \E c \in Contexts :
        /\ io[c].tag # <<>>
        /\ SubSeq(io[c].start.ctr, IvSize + 1, BlockSize)
           = <<255, 255, 255, 255>>
        /\ BlocksOf(io[c].calls) = 1
        /\ SubSeq(context[c].ctr, IvSize + 1, BlockSize) = <<0, 0, 0, 0>>

-----------------------------------------------------------------------------
(* C14 *)

\* the number of bits of n bytes, as the 64-bit total of the context
Bits64(n) == <<0, 0, (8 * n) \div 65536, (8 * n) % 65536>>

\* C14: after every step, the additional-data total of a keyed context is 8
\* times the bytes passed in calls with dst = NULL since gcm_setiv and the
\* data total is 8 times the bytes passed in calls with a destination; a
\* call changes one of the two totals only, by 8 times its length, and a
\* call of length 0 leaves the whole context as it was.
C14_LengthAccounting ==
    [][\A c \in Contexts :
          Keyed(c)'
          => /\ context'[c].len.add = Bits64(Len(io'[c].aad))
             /\ context'[c].len.data = Bits64(Len(io'[c].src))
             /\ (last'.ctx = c /\ last'.op = "aad")
                => /\ context'[c].len.data = context[c].len.data
                   /\ context'[c].len.add
                      = Bits64(Len(io[c].aad) + last'.len)
             /\ (last'.ctx = c /\ last'.op = "data")
                => /\ context'[c].len.add = context[c].len.add
                   /\ context'[c].len.data
                      = Bits64(Len(io[c].src) + last'.len)
             /\ (last'.ctx = c /\ last'.op \in {"aad", "data"}
                 /\ last'.len = 0)
                => context'[c] = context[c]]_vars

\* 5 bytes of additional data, then a gcm_encrypt call with a destination
\* and no bytes
C14_Witness ==
    /\ last.op = "data"
    /\ last.len = 0
    /\ io[last.ctx].calls = <<[kind |-> "aad", len |-> 5],
                              [kind |-> "enc", len |-> 0]>>
    /\ context[last.ctx].len.add = <<0, 0, 0, 40>>
    /\ context[last.ctx].len.data = <<0, 0, 0, 0>>

-----------------------------------------------------------------------------
(* C18 *)

\* the last n bytes of a sequence
Suffix(bytes, n) == SubSeq(bytes, Len(bytes) - n + 1, Len(bytes))

\* the bytes the last call on context c fed to the hash: the additional
\* data, the ciphertext gcm_encrypt wrote or the ciphertext gcm_decrypt read
LastHashed(c) ==
    IF last.op = "aad" THEN Suffix(io[c].aad, last.len)
    ELSE IF last.dec THEN Suffix(io[c].src, last.len)
    ELSE Suffix(io[c].dst, last.len)

\* C18: a call whose last fragment has 0 < l < 16 bytes leaves the hash
\* GHASH continued over its bytes with the last block padded with zeros on
\* the right, which is also the hash the code computes when it is fed the
\* same bytes followed by 16 - l zero bytes (for additional data the two
\* contexts then differ in the bit count only); with a destination, the l
\* bytes of the last fragment are src xor the first l bytes of the keystream
\* block and the destination buffer past them is not written.
C18_PartialBlock ==
    [][\A c \in Contexts :
          (last'.ctx = c /\ last'.op \in {"aad", "data"}
           /\ last'.len % BlockSize # 0)
          => LET L == last'.len
                 l == L % BlockSize
                 fed == LastHashed(c)'
                 padded == fed \o [i \in 1..(BlockSize - l) |-> 0]
                 whole == gcm_encrypt(Start(c, [in |-> padded, out |-> <<>>]),
                                      c, "in", NULL, Len(padded), 0).context
                 src == LastSrc(c)'
                 tmp == cipher_encrypt(context'[c].raw_ctx, context'[c].ctr)
             IN  /\ context'[c].hash
                    = Ghash(context[c].key, context[c].hash, fed)
                 /\ context'[c].hash = whole.hash
                 /\ last'.op = "aad"
                    => [whole EXCEPT !.len = context'[c].len] = context'[c]
                 /\ last'.op = "data"
                    => /\ \A k \in 1..l :
                              last'.out[L - l + k]
                              = Xor8(src[L - l + k], tmp[k])
                       /\ \A k \in (L + 1)..Len(last'.out) :
                              last'.out[k] = Garbage(Len(last'.out))[k]]_vars

\* 5 bytes of additional data, then a gcm_decrypt call of a block and 5
\* bytes
C18_Witness ==
    /\ last.op = "data"
    /\ last.dec
    /\ last.len = 21
    /\ io[last.ctx].calls = <<[kind |-> "aad", len |-> 5],
                              [kind |-> "dec", len |-> 21]>>

-----------------------------------------------------------------------------
(* C19 *)

\* The calls of context c made again one after the other, with the bytes and
\* the lengths they had and no gcm_tag between them, from the context st
\* holds: the context and the cache after them and the bytes they wrote.
RECURSIVE ReplayLoop(_, _, _, _, _)
ReplayLoop(c, st, calls, aoff, doff) ==
    IF calls = <<>> THEN st
    ELSE LET k == Head(calls)
             len == k.len
             from(in, out) ==
                 [context |-> st.context, cache |-> st.cache,
                  mem |-> [in |-> in, out |-> out], encrypts |-> 0]
         IN  IF k.kind = "aad"
             THEN Only({ReplayLoop(c, [context |-> r.context,
                                       cache |-> r.cache, dst |-> st.dst],
                                   Tail(calls), aoff + len, doff) :
                     r \in {gcm_encrypt(
                                from(SubSeq(io[c].aad, aoff + 1, aoff + len),
                                     <<>>),
                                c, "in", NULL, len, 0)}})
             ELSE Only({ReplayLoop(c, [context |-> r.context,
                                       cache |-> r.cache,
                                       dst |-> st.dst \o r.mem.out],
                                   Tail(calls), aoff, doff + len) :
                     r \in {IF k.kind = "dec"
                            THEN gcm_decrypt(
                                from(SubSeq(io[c].src, doff + 1, doff + len),
                                     Garbage(len)),
                                c, "in", "out", len, 0)
                            ELSE gcm_encrypt(
                                from(SubSeq(io[c].src, doff + 1, doff + len),
                                     Garbage(len)),
                                c, "in", "out", len, 0)}})

Replay(c, cache) ==
    ReplayLoop(c, [context |-> io[c].start, cache |-> cache, dst |-> <<>>],
               io[c].calls, 0, 0)

\* C19: gcm_tag leaves every context as it was, and a second gcm_tag right
\* after it writes the same tag; the context and the bytes written by calls
\* that each followed a gcm_tag are those of the same calls made with no
\* gcm_tag between them.
C19_TagFrame ==
    /\ [][last'.op = "tag"
          => /\ context' = context
             /\ last'.out = gcm_tag(context'[last'.ctx], last'.ctx, Cache',
                                    0).tag]_vars
    /\ [](\A c \in Contexts :
              Keyed(c)
              => \A replay \in {Replay(c, Cache)} :
                     /\ context[c] = replay.context
                     /\ io[c].dst = replay.dst)

\* gcm_tag, 5 bytes of additional data, gcm_tag, 16 bytes encrypted, gcm_tag
C19_Witness ==
    /\ last.op = "tag"
    /\ io[last.ctx].calls = <<[kind |-> "aad", len |-> 5],
                              [kind |-> "enc", len |-> 16]>>
    /\ io[last.ctx].tag = last.out

-----------------------------------------------------------------------------
(* C20 *)

\* C20: every gcm_decrypt call with a destination, the destination being
\* the source buffer itself or a buffer of its own, writes the plaintext and
\* leaves the context (the running hash in it) that gcm_decrypt of the same
\* ciphertext into a separate buffer gives; and every tag is the tag of the
\* same calls made with separate buffers.
C20_InPlaceDecrypt ==
    /\ [][\A c \in Contexts :
             (last'.op = "data" /\ last'.ctx = c /\ last'.dec)
             => \A apart \in {gcm_decrypt(
                                  Start(c, [in |-> LastSrc(c)',
                                            out |-> Garbage(last'.len)]),
                                  c, "in", "out", last'.len, 0)} :
                    /\ SubSeq(last'.out, 1, last'.len) = apart.mem.out
                    /\ context'[c].hash = apart.context.hash
                    /\ context'[c] = apart.context]_vars
    /\ [](\A c \in Contexts :
             (Keyed(c) /\ io[c].tag # <<>>)
             => \A replay \in {Replay(c, Cache)} :
                    io[c].tag = gcm_tag(replay.context, c, replay.cache,
                                        0).tag)

-----------------------------------------------------------------------------
(* C15 *)

\* the tables before anything was built
EmptyCache ==
    [key |-> NULL, mult |-> Stored([i \in 1..TableSize |-> ZeroBlock]),
     reduce |-> Stored([i \in 1..TableSize |-> <<0, 0>>])]

\* H * P(i), P(i) the polynomial of degree below 8 whose coefficients are
\* the bits of i, the most significant bit of i being the coefficient of 1
RECURSIVE ByteTimesLoop(_, _, _, _)
ByteTimesLoop(i, z, v, k) ==
    IF k = 8 THEN z
    ELSE ByteTimesLoop(i,
                       IF (i \div (2 ^ (7 - k))) % 2 = 1 THEN BlockXor(z, v)
                       ELSE z,
                       TimesX(v), k + 1)

ByteTimes(h, i) == ByteTimesLoop(i, ZeroBlock, h, 0)

\* Context c as the only context there is: gcm_setkey with its key on empty
\* tables, gcm_setiv with its initialisation vector if it has one, then its
\* calls and gcm_tag.
Alone(c) ==
    LET keyed == gcm_setkey(ZeroContext, c, io[c].key, Len(io[c].key),
                            RawCipher, EmptyCache, 0)
        started == IF io[c].iv = <<>> THEN keyed
                   ELSE gcm_setiv(keyed.context, c, io[c].iv, Len(io[c].iv),
                                  keyed.cache, 0)
    IN  Only({[context |-> replay.context, dst |-> replay.dst,
               tag |-> gcm_tag(replay.context, c, replay.cache, 0).tag] :
                 replay \in {ReplayLoop(c, [context |-> begun.context,
                                            cache |-> begun.cache,
                                            dst |-> <<>>],
                                        io[c].calls, 0, 0) :
                                begun \in {started}}})

\* C15: for every context whose latest gcm_setkey succeeded, whatever calls
\* on the other context and whatever gcm_setkey calls came between its own:
\* while the cached key is its key, entry i of the multiplication table is
\* H * P(i) for its hash key H, and its context, the bytes it wrote and its
\* tag are those it gets as the only context.
C15_SharedCache ==
    \A c \in Contexts :
        Keyed(c)
        => /\ gcm_cached_key = c
              => \A i \in 0..(TableSize - 1) :
                     Entry(gcm_cached_mult, i) = ByteTimes(context[c].key, i)
           /\ \A alone \in {Alone(c)} :
                  /\ context[c] = alone.context
                  /\ io[c].dst = alone.dst
                  /\ io[c].tag # <<>> => io[c].tag = alone.tag

\* the first context, keyed a second time in place, has encrypted two
\* blocks and produced its tag, each call after a call on the second
\* context, which has encrypted a block under its own key
C15_Witness ==
    /\ last.op = "tag"
    /\ last.ctx = "c1"
    /\ io["c1"].keys = 2
    /\ Len(io["c1"].calls) = 2
    /\ Len(io["c2"].calls) > 0
    /\ io["c1"].tag # <<>>

-----------------------------------------------------------------------------
(* C16 *)

\* the byte with the bits of i in the opposite order
Rev8(i) ==
    (i % 2) * 128 + ((i \div 2) % 2) * 64 + ((i \div 4) % 2) * 32
    + ((i \div 8) % 2) * 16 + ((i \div 16) % 2) * 8 + ((i \div 32) % 2) * 4
    + ((i \div 64) % 2) * 2 + ((i \div 128) % 2)

\* the 16-bit big-endian value of a reduction entry shifted right by one
HalfReduce(r) ==
    <<r[1] \div 2, (r[2] \div 2) + (r[1] % 2) * 128>>

\* C16: pass i of the loop of gcm_cache follows pass i - 1 and writes entry
\* j = Rev8(i) of both tables and no other entry; j is not 0 and was not
\* written by an earlier pass of this build; what it writes is computed from
\* entry o (j without its top bit when the top bit is set, else 2 * j) of
\* the tables, and o is 0 or was written by an earlier pass of this build;
\* entry 0 of both tables is zero throughout; the cached key does not change
\* during the passes and changes only when all 255 are done.
C16_BuildOrder ==
    [][/\ (last'.op = "gcm_cache" /\ last'.len > 0)
          => LET i == last'.len
                 j == Rev8(i)
                 o == IF j >= 128 THEN j - 128 ELSE 2 * j
                 written == {Rev8(k) : k \in 1..(i - 1)}
                 key == context[last'.ctx].key
             IN  /\ last.op = "gcm_cache" /\ last.len = i - 1
                 /\ j # 0 /\ j \notin written
                 /\ o \in written \cup {0}
                 /\ \A k \in (0..(TableSize - 1)) \ {j} :
                        /\ Entry(gcm_cached_mult', k)
                           = Entry(gcm_cached_mult, k)
                        /\ Entry(gcm_cached_reduce', k)
                           = Entry(gcm_cached_reduce, k)
                 /\ Entry(gcm_cached_mult', j)
                    = IF j >= 128
                      THEN BlockXor(key, Entry(gcm_cached_mult, o))
                      ELSE TimesX(Entry(gcm_cached_mult, o))
                 /\ Entry(gcm_cached_reduce', j)
                    = IF j >= 128
                      THEN <<Xor8(Entry(gcm_cached_reduce, o)[1], 225),
                             Entry(gcm_cached_reduce, o)[2]>>
                      ELSE HalfReduce(Entry(gcm_cached_reduce, o))
                 /\ gcm_cached_key' = gcm_cached_key
       /\ gcm_cached_key' # gcm_cached_key
          => /\ last.op = "gcm_cache"
             /\ last.len = TableSize - 1
             /\ gcm_cached_key' = last.ctx
       /\ Entry(gcm_cached_mult', 0) = ZeroBlock
       /\ Entry(gcm_cached_reduce', 0) = <<0, 0>>]_vars

\* all 255 passes of a build over the tables of another key are done and
\* the cached key is still the other key
C16_Witness ==
    /\ last.op = "gcm_cache"
    /\ last.len = TableSize - 1
    /\ gcm_cached_key # NULL
    /\ gcm_cached_key # last.ctx

-----------------------------------------------------------------------------
(* C17 *)

\* x^128 modulo f(x): 1 + x + x^2 + x^7
Poly128 == Stored([i \in 1..BlockSize |-> IF i = 1 THEN GCM_POLY ELSE 0])

\* blocks to multiply by the hash key h: 0, 1, x^7, x^120, x^127, all ones,
\* h itself and two mixed patterns
Blocks(h) ==
    {ZeroBlock,
     Stored([i \in 1..BlockSize |-> IF i = 1 THEN 128 ELSE 0]),
     Stored([i \in 1..BlockSize |-> IF i = 1 THEN 1 ELSE 0]),
     Stored([i \in 1..BlockSize |-> IF i = BlockSize THEN 128 ELSE 0]),
     Stored([i \in 1..BlockSize |-> IF i = BlockSize THEN 1 ELSE 0]),
     Stored([i \in 1..BlockSize |-> 255]),
     h,
     Stored([i \in 1..BlockSize |-> (i * 29 + 7) % 256]),
     Stored([i \in 1..BlockSize |-> (i * i * 53 + 101) % 256])}

\* tables hold H * P(i) and x^128 * P(i) for every i
TablesFor(h, cache) ==
    \A i \in 0..(TableSize - 1) :
        /\ Entry(cache.mult, i) = ByteTimes(h, i)
        /\ Entry(cache.reduce, i) = SubSeq(ByteTimes(Poly128, i), 1, 2)
        /\ \A k \in 3..BlockSize : ByteTimes(Poly128, i)[k] = 0

\* C17: once gcm_setkey has built the tables for the hash key H of a
\* context, entry i of the multiplication table is H * P(i) and entry i of
\* the reduction table is x^128 * P(i) modulo f(x), for i = 0..255, and
\* gcm_multiply_key turns a block B into the product B * H of the
\* bit-by-bit multiplication, on these tables as well as on tables it has
\* to build first.
C17_FieldProduct ==
    \A c \in Contexts :
        (last.op = "setkey" /\ last.ctx = c)
        => /\ gcm_cached_key = c
           /\ TablesFor(context[c].key, Cache)
           /\ \A B \in Blocks(context[c].key) :
                  gcm_multiply_key(c, context[c].key, B, Cache, 0).poly
                  = GfMul(B, context[c].key)
           /\ \A built \in {gcm_multiply_key(c, context[c].key,
                                              context[c].key, EmptyCache,
                                              0)} :
                  /\ built.poly = GfMul(context[c].key, context[c].key)
                  /\ built.cache.key = c
                  /\ TablesFor(context[c].key, built.cache)

\* the tables of a second key are complete: entry 0x80 is H * 1 = H
C17_Witness ==
    /\ last.op = "setkey"
    /\ io["c1"].keys + io["c2"].keys = 2
    /\ gcm_cached_key = last.ctx
    /\ Entry(gcm_cached_mult, 128) = context[last.ctx].key
    /\ context[last.ctx].key # ZeroBlock

=============================================================================
